---- MODULE Spec2Model ----
\* Model of src/src/pow.cpp: ASERT retargeting, the dual-lane dispatcher,
\* the legacy transition validator and the proof-of-work check.
\* 256-bit unsigned integers (arith_uint256) are little-endian sequences of
\* NLimbs bytes; int64 quantities of CalculateASERT are signed records
\* [neg, mag] over the same byte sequences.
EXTENDS Integers, Naturals, Sequences, FiniteSets, TLC

VARIABLES pc, inp, out
vars == <<pc, inp, out>>

\* ---------------------------------------------------------------------
\* arith_uint256 (base_uint<256>)
\* ---------------------------------------------------------------------
NLimbs == 32

\* the values of a base_uint<256> and of an int64 of CalculateASERT; a function
\* over these sets applied to an argument binds the argument's value once
BigDom == Seq(Int)

SIntDom == [neg : BOOLEAN, mag : Seq(Int)]

Big(n) == [i \in 1..NLimbs |-> IF i <= 4 THEN (n \div (256 ^ (i - 1))) % 256 ELSE 0]

BigZero == Big(0)

\* carry propagation over eight limbs from limb base + 1, with carry c in:
\* <<carry out, the eight limbs>>; s[i] is limb base + i plus the carry into it
Carry8(r, base, c) ==
  LET F[cin \in Int] ==
        LET s[i \in 0..8] == IF i = 0 THEN cin * 256 ELSE r[base + i] + s[i - 1] \div 256
        IN <<s[8] \div 256, [i \in 1..8 |-> s[i] % 256]>>
  IN F[c]

\* carry propagation of limb-wise sums: <<carry out of limb NLimbs, limbs>>,
\* eight limbs at a time
NormFull(raw) ==
  LET F[r \in BigDom] ==
        LET f[k \in 0..(NLimbs \div 8)] ==
              IF k = 0 THEN <<0, <<>>>>
              ELSE LET G[p \in Int \X Seq(Int)] ==
                         LET H[q \in Int \X Seq(Int)] == <<q[1], p[2] \o q[2]>>
                         IN H[Carry8(r, 8 * (k - 1), p[1])]
                   IN G[f[k - 1]]
        IN IF Len(r) = NLimbs THEN f[NLimbs \div 8] ELSE <<0, <<>>>>
  IN F[raw]

\* carry propagation, result taken modulo 2^256
Norm(raw) == NormFull(raw)[2]

BigAdd(a, b) == LET F[x \in BigDom, y \in BigDom] == Norm([i \in 1..NLimbs |-> x[i] + y[i]])
                IN F[a, b]

BigSub(a, b) == LET F[x \in BigDom, y \in BigDom] == Norm([i \in 1..NLimbs |-> x[i] - y[i]])
                IN F[a, b]

BigMulSmall(a, k) == LET F[x \in BigDom, m \in Int] == Norm([i \in 1..NLimbs |-> x[i] * m])
                     IN F[a, k]

BigLt(a, b) ==
  LET F[x \in BigDom, y \in BigDom] == NormFull([i \in 1..NLimbs |-> x[i] - y[i]])[1] < 0
  IN F[a, b]

BigLeq(a, b) == ~BigLt(b, a)

Limb(a, i) == IF i \in 1..NLimbs THEN a[i] ELSE 0

BigShl(a, s) ==
  LET F[x \in BigDom, n \in Int] ==
        IF n >= 256 THEN BigZero
        ELSE SubSeq([i \in 1..NLimbs |-> ((Limb(x, i - n \div 8) * 2 ^ (n % 8)) % 256)
                                         + ((Limb(x, i - n \div 8 - 1) * 2 ^ (n % 8)) \div 256)],
                    1, NLimbs)
  IN F[a, s]

BigShr(a, s) ==
  LET F[x \in BigDom, n \in Int] ==
        IF n >= 256 THEN BigZero
        ELSE SubSeq([i \in 1..NLimbs |-> (Limb(x, i + n \div 8) \div 2 ^ (n % 8))
                                         + ((Limb(x, i + n \div 8 + 1) % 2 ^ (n % 8))
                                            * 2 ^ (8 - (n % 8)))],
                    1, NLimbs)
  IN F[a, s]

\* multiplication by a uint32 given as its 16-bit halves hi, lo
\* (base_uint::operator*=(uint32_t)), modulo 2^256
BigMulU32(a, hi, lo) ==
  LET F[x \in BigDom] == BigAdd(BigMulSmall(x, lo), BigShl(BigMulSmall(x, hi), 16))
  IN F[a]

\* one binary long-division step: remainder r < d and quotient q of the bits
\* so far, next dividend bit in; 2r + bit >= d is tested as r >= d - r - bit,
\* which keeps every intermediate below 2^31 for d < 2^31
DivBit(p, bit, d) ==
  LET G[pp \in Int \X Int] ==
        IF pp[1] >= d - pp[1] - bit THEN <<pp[1] - (d - pp[1] - bit), 2 * pp[2] + 1>>
        ELSE <<2 * pp[1] + bit, 2 * pp[2]>>
  IN G[p]

\* long division of one limb with remainder rem in: <<remainder out, quotient limb>>
DivLimb(rem, limb, d) ==
  LET F[rin \in Int] ==
        LET b[k \in 0..8] == IF k = 0 THEN <<rin, 0>>
                             ELSE DivBit(b[k - 1], (limb \div 2 ^ (8 - k)) % 2, d)
        IN b[8]
  IN F[rem]

\* long division of eight limbs from limb top down, remainder rem in:
\* <<remainder out, the eight quotient limbs, low first>>; c[j] is the state
\* after limb top - j + 1
Div8(a, top, d, rem) ==
  LET F[rin \in Int] ==
        LET c[j \in 0..8] == IF j = 0 THEN <<rin, 0>>
                             ELSE DivLimb(c[j - 1][1], a[top - j + 1], d)
        IN <<c[8][1], [i \in 1..8 |-> c[9 - i][2]]>>
  IN F[rem]

\* division by a positive divisor below 2^31, truncating (long division from the top)
BigDivSmall(x, d) ==
  LET F[a \in BigDom, dv \in Int] ==
        LET f[k \in 0..(NLimbs \div 8)] ==
              IF k = 0 THEN <<0, <<>>>>
              ELSE LET G[p \in Int \X Seq(Int)] ==
                         LET H[q \in Int \X Seq(Int)] == <<q[1], q[2] \o p[2]>>
                         IN H[Div8(a, NLimbs - 8 * (k - 1), dv, p[1])]
                   IN G[f[k - 1]]
        IN IF Len(a) = NLimbs THEN f[NLimbs \div 8][2] ELSE <<>>
  IN F[x, d]

\* value of a number known to be below 2^31
BigToNat(a) == LET F[x \in BigDom] == x[1] + 256 * x[2] + 65536 * x[3] + 16777216 * x[4]
               IN F[a]

\* the low n bits (n a multiple of 8)
BigLow(a, n) == LET F[x \in BigDom] == SubSeq([i \in 1..NLimbs |-> IF i <= n \div 8 THEN x[i] ELSE 0],
                                              1, NLimbs)
                IN F[a]

\* index of the highest non-zero limb, 0 for zero
TopLimb(a) ==
  LET F[x \in BigDom] ==
        CHOOSE t \in 0..NLimbs : (t = 0 \/ x[t] # 0) /\ \A j \in (t + 1)..NLimbs : x[j] = 0
  IN F[a]

BitLen8(x) == IF x = 0 THEN 0 ELSE CHOOSE k \in 1..8 : 2 ^ (k - 1) <= x /\ x < 2 ^ k

\* base_uint::bits()
BigBits(a) ==
  LET F[x \in BigDom] ==
        LET G[t \in Int] == IF t = 0 THEN 0 ELSE 8 * (t - 1) + BitLen8(x[t])
        IN G[TopLimb(x)]
  IN F[a]

\* arith_uint256::SetCompact, with its negative and overflow flags
SetCompact(nCompact) ==
  LET F[n \in Int] ==
        LET nSize == n \div 16777216
            nWord0 == n % 8388608
            nWord == IF nSize <= 3 THEN nWord0 \div (2 ^ (8 * (3 - nSize))) ELSE nWord0
        IN [val |-> IF nSize <= 3 THEN Big(nWord) ELSE BigShl(Big(nWord), 8 * (nSize - 3)),
            neg |-> nWord # 0 /\ (n \div 8388608) % 2 = 1,
            ovf |-> nWord # 0 /\ (nSize > 34 \/ (nWord > 255 /\ nSize > 33)
                                  \/ (nWord > 65535 /\ nSize > 32))]
  IN F[nCompact]

\* arith_uint256::GetCompact(fNegative = false)
GetCompact(x) ==
  LET F[v \in BigDom, nSize0 \in Int] ==
        LET G[c0 \in Int] ==
              LET sign == (c0 \div 8388608) % 2 = 1
                  c == IF sign THEN c0 \div 256 ELSE c0
                  nSize == IF sign THEN nSize0 + 1 ELSE nSize0
              IN c + nSize * 16777216
        IN G[IF nSize0 <= 3 THEN BigToNat(BigLow(v, 64)) * (2 ^ (8 * (3 - nSize0)))
             ELSE BigToNat(BigShr(v, 8 * (nSize0 - 3)))]
  IN F[x, (BigBits(x) + 7) \div 8]

\* ---------------------------------------------------------------------
\* int64 arithmetic of CalculateASERT, exact (its assertion bounds the
\* operands well inside int64)
\* ---------------------------------------------------------------------
SInt(n) == LET F[m \in Int] == IF m < 0 THEN [neg |-> TRUE, mag |-> Big(-m)]
                               ELSE [neg |-> FALSE, mag |-> Big(m)]
           IN F[n]

SNeg(x) == LET F[v \in SIntDom] == [neg |-> ~v.neg /\ v.mag # BigZero, mag |-> v.mag]
           IN F[x]

SAdd(x, y) ==
  LET F[u \in SIntDom, v \in SIntDom] ==
        IF u.neg = v.neg THEN [neg |-> u.neg, mag |-> BigAdd(u.mag, v.mag)]
        ELSE IF BigLt(u.mag, v.mag) THEN [neg |-> v.neg, mag |-> BigSub(v.mag, u.mag)]
        ELSE [neg |-> u.neg /\ u.mag # v.mag, mag |-> BigSub(u.mag, v.mag)]
  IN F[x, y]

SSub(x, y) == SAdd(x, SNeg(y))

SPositive(x) == LET F[v \in SIntDom] == ~v.neg /\ v.mag # BigZero IN F[x]

\* int64 -> int -> unsigned int conversion of a shift count (modulo 2^32);
\* every count >= 256 shifts a base_uint<256> to zero, so 256 stands for them
ShiftCount(x) ==
  LET F[v \in SIntDom] ==
        IF v.mag[2] = 0 /\ v.mag[3] = 0 /\ v.mag[4] = 0 THEN v.mag[1] ELSE 256
  IN F[x]

\* ---------------------------------------------------------------------
\* CalculateASERT (pow.cpp:81-164)
\* ---------------------------------------------------------------------
\* 195766423245049 = 0xB20C6C1DD0F9
PolyA == [i \in 1..NLimbs |-> IF i <= 6 THEN <<249, 208, 29, 108, 12, 178>>[i] ELSE 0]

PolyB == 971821376

PolyC == 5127

\* 65536 + ((195766423245049*frac + 971821376*frac^2 + 5127*frac^3 + 2^47) >> 48), uint64
ASERTFactor(frac) ==
  LET F[f \in Int] ==
        65536 + BigToNat(BigShr(BigLow(
            BigAdd(BigAdd(BigAdd(BigMulSmall(PolyA, f),
                                 BigMulSmall(BigMulSmall(Big(PolyB), f), f)),
                          BigMulSmall(BigMulSmall(BigMulSmall(Big(PolyC), f), f), f)),
                   BigShl(Big(1), 47)), 64), 48))
  IN F[frac]

\* exponent = ((nTimeDiff - nPowTargetSpacing * nHeightDiff) * 65536) / nHalfLife
ASERTExponent(diff, nHalfLife) ==
  LET F[d \in SIntDom, q \in BigDom] == [neg |-> d.neg /\ q # BigZero, mag |-> q]
  IN F[diff, BigDivSmall(BigShl(diff.mag, 16), nHalfLife)]

\* shifts = exponent >> 16 (arithmetic, floor)
ASERTShifts(e) ==
  LET F[v \in SIntDom] ==
        IF v.neg THEN [neg |-> TRUE, mag |-> BigShr(BigAdd(v.mag, Big(65535)), 16)]
        ELSE [neg |-> FALSE, mag |-> BigShr(v.mag, 16)]
  IN F[e]

\* frac = uint16_t(exponent)
ASERTFrac(e) ==
  LET F[v \in SIntDom] ==
        LET G[low \in Int] == IF v.neg THEN (65536 - low) % 65536 ELSE low
        IN G[BigToNat(BigLow(v.mag, 16))]
  IN F[e]

\* the conditions of the function's assert() calls
ASERTAssertsHold(refTarget, nPowTargetSpacing, nTimeDiff, nHeightDiff, powLimit) ==
  LET F[ref \in BigDom, pl \in BigDom, hd \in Int, diff \in SIntDom] ==
        /\ BigZero # ref /\ BigLeq(ref, pl)
        /\ BigShr(pl, 224) = BigZero
        /\ hd > 0
        /\ BigLt(diff.mag, BigShl(Big(1), 47))
  IN F[refTarget, powLimit, nHeightDiff,
       SSub(nTimeDiff, SInt(nPowTargetSpacing * nHeightDiff))]

\* the shift of pow.cpp:139-153: nextTarget shifted by shifts, a left shift
\* that loses bits giving powLimit
ASERTShiftTarget(nextTarget, shifts, powLimit) ==
  LET F[nt \in BigDom, s \in SIntDom, pl \in BigDom, cnt \in Int] ==
        IF ~SPositive(s) THEN BigShr(nt, cnt)
        ELSE LET G[shifted \in BigDom] == IF BigShr(shifted, cnt) # nt THEN pl ELSE shifted
             IN G[BigShl(nt, cnt)]
  IN F[nextTarget, shifts, powLimit, ShiftCount(shifts)]

CalculateASERT(refTarget, nPowTargetSpacing, nTimeDiff, nHeightDiff, powLimit, nHalfLife) ==
  LET F[pl \in BigDom, exponent \in SIntDom] ==
        LET G[nextTarget \in BigDom] ==
              IF nextTarget = BigZero THEN Big(1)
              ELSE IF BigLt(pl, nextTarget) THEN pl
              ELSE nextTarget
        IN G[ASERTShiftTarget(BigMulSmall(refTarget, ASERTFactor(ASERTFrac(exponent))),
                              SSub(ASERTShifts(exponent), SInt(16)), pl)]
  IN F[powLimit,
       ASERTExponent(SSub(nTimeDiff, SInt(nPowTargetSpacing * nHeightDiff)), nHalfLife)]

\* ---------------------------------------------------------------------
\* Dispatcher. A chain is [aux, time, bits], functions of the height
\* 0..last; the pprev of the node at height h is the node at height h - 1.
\* P holds the Consensus::Params fields, P.anchor the ASERTAnchor.
\* ---------------------------------------------------------------------

\* anchornBits / nPowTargetSpacing by the candidate's lane (pow.cpp:43-48)
ASERTLaneBits(blk, P) == IF blk.aux THEN P.anchor.nBitsAuxPow ELSE P.anchor.nBitsLegacy

ASERTLaneSpacing(blk, P) ==
  IF blk.aux THEN P.nPowTargetSpacingAuxPow ELSE P.nPowTargetSpacingLegacy

\* mutant: decrements for blocks on the candidate's own lane
ASERTHeightDiffSameLane(ch, p, blk, anchorHeight) ==
  (p - anchorHeight) - Cardinality({h \in (anchorHeight + 1)..p : ch.aux[h] = blk.aux})

\* mutant: starts from the height difference less one
ASERTHeightDiffOffByOne(ch, p, blk, anchorHeight) ==
  (p - anchorHeight - 1) - Cardinality({h \in (anchorHeight + 1)..p : ch.aux[h] # blk.aux})

\* nHeightDiff after the loop of pow.cpp:54-62: one less per block on the other lane
ASERTHeightDiff(ch, p, blk, anchorHeight) ==
  (p - anchorHeight) - Cardinality({h \in (anchorHeight + 1)..p : ch.aux[h] # blk.aux})

\* GetNextASERTWorkRequired (pow.cpp:23-77) for pindexPrev at height p
GetNextASERTWorkRequired(ch, p, blk, P) ==
  LET anchornBits == ASERTLaneBits(blk, P)
      sp == ASERTLaneSpacing(blk, P)
      nTimeDiff == ch.time[p] - P.anchor.nBlockTime
      nHeightDiff == ASERTHeightDiff(ch, p, blk, P.anchor.nHeight)
      F[refBlockTarget \in BigDom] ==
        [res |-> GetCompact(CalculateASERT(refBlockTarget, sp, SInt(nTimeDiff), nHeightDiff,
                                           P.powLimit, P.nASERTHalfLife)),
         ok |-> /\ P.anchor.nHeight > 0 /\ p > P.anchor.nHeight /\ p >= 1
                /\ ASERTAssertsHold(refBlockTarget, sp, SInt(nTimeDiff), nHeightDiff, P.powLimit),
         hd |-> nHeightDiff, td |-> nTimeDiff, bits |-> anchornBits, sp |-> sp]
  IN F[SetCompact(anchornBits).val]

\* mutant: the walk's anchor check uses < instead of <=
LaneWalkStrict(ch, last, blk, anchorHeight) ==
  LET h == CHOOSE x \in 0..last :
             /\ (ch.aux[x] = blk.aux \/ x < anchorHeight)
             /\ \A y \in (x + 1)..last : ch.aux[y] # blk.aux /\ y >= anchorHeight
  IN [stop |-> IF ch.aux[h] = blk.aux THEN "match" ELSE "anchor", h |-> h]

\* the lane walk of pow.cpp:191-202: pindexPrev moves down from last and
\* stops at the first node on the candidate's lane ("match") or returns at
\* the first node at or below the anchor height ("anchor")
LaneWalk(ch, last, blk, anchorHeight) ==
  LET h == CHOOSE x \in 0..last :
             /\ (ch.aux[x] = blk.aux \/ x <= anchorHeight)
             /\ \A y \in (x + 1)..last : ch.aux[y] # blk.aux /\ y > anchorHeight
  IN [stop |-> IF ch.aux[h] = blk.aux THEN "match" ELSE "anchor", h |-> h]

\* pow.cpp:195-199
WalkAnchorBits(blk, P) == IF blk.aux THEN P.anchor.nBitsAuxPow ELSE P.anchor.nBitsLegacy

\* pow.cpp:205-209
RefAnchorBits(blk, P) == IF blk.aux THEN P.anchor.nBitsAuxPow ELSE P.anchor.nBitsLegacy

\* mutant: >= instead of > in the time bound
MinDifficultyDueInclusive(ch, last, blk, P) ==
  P.fPowAllowMinDifficultyBlocks /\ blk.time >= ch.time[last] + 2 * P.nPowTargetSpacingAuxPow

\* mutant: the regtest flag is not consulted
NoRetargetingIgnored(P) == FALSE

\* the fPowNoRetargeting rule (pow.cpp:172)
NoRetargeting(P) == P.fPowNoRetargeting

\* the time bound of the min-difficulty rule (pow.cpp:184-186)
MinDifficultyDue(ch, last, blk, P) ==
  P.fPowAllowMinDifficultyBlocks /\ blk.time > ch.time[last] + 2 * P.nPowTargetSpacingAuxPow

NoASERT == [ref |-> -1, hd |-> 0, td |-> 0, bits |-> 0, sp |-> 0]

\* GetNextWorkRequired (pow.cpp:167-213); path names the return taken
\* ("assert": the assert of pow.cpp:176 aborts, res is meaningless),
\* low is the lowest height any walk moved pindexPrev to
GetNextWorkRequired(ch, last, blk, P) ==
  IF NoRetargeting(P)
  THEN [res |-> ch.bits[last], path |-> "noretarget", low |-> last] @@ NoASERT
  ELSE IF ~(P.anchor.nHeight > 0)
  THEN [res |-> 0, path |-> "assert", low |-> last] @@ NoASERT
  ELSE IF last <= P.anchor.nHeight
  THEN [res |-> P.anchor.nBitsLegacy, path |-> "anchor", low |-> last] @@ NoASERT
  ELSE IF MinDifficultyDue(ch, last, blk, P)
  THEN [res |-> GetCompact(P.powLimit), path |-> "mindiff", low |-> last] @@ NoASERT
  ELSE LET F[w \in [stop : {"match", "anchor"}, h : Int]] ==
             IF w.stop = "anchor"
             THEN [res |-> WalkAnchorBits(blk, P), path |-> "walkanchor", low |-> w.h] @@ NoASERT
             ELSE IF w.h <= P.anchor.nHeight
             THEN [res |-> RefAnchorBits(blk, P), path |-> "refanchor", low |-> w.h] @@ NoASERT
             ELSE LET G[r \in [res : Int, ok : BOOLEAN, hd : Int, td : Int, bits : Int, sp : Int]] ==
                        [res |-> r.res, path |-> IF r.ok THEN "asert" ELSE "abort",
                         low |-> P.anchor.nHeight, ref |-> w.h, hd |-> r.hd, td |-> r.td,
                         bits |-> r.bits, sp |-> r.sp]
                  IN G[GetNextASERTWorkRequired(ch, w.h, blk, P)]
       IN F[LaneWalk(ch, last, blk, P.anchor.nHeight)]

\* ---------------------------------------------------------------------
\* PermittedDifficultyTransition (pow.cpp:242-289) and CheckProofOfWork
\* (pow.cpp:291-308). P.interval is DifficultyAdjustmentInterval().
\* ---------------------------------------------------------------------

\* SetCompact(x.GetCompact()): the compact round trip of pow.cpp:266-267, 282-283
CompactRoundTrip(x) == SetCompact(GetCompact(x)).val

\* the int64 timespans of pow.cpp:247-248 as the uint32_t that
\* operator*=(uint32_t) receives, in 16-bit halves <<hi, lo>>:
\* uint32(nPowTargetTimespan / 4) and uint32(nPowTargetTimespan * 4), the latter
\* 4 * (nPowTargetTimespan mod 2^30); both taken modulo 2^32
SmallestTimespanU32(P) ==
  <<((P.nPowTargetTimespan \div 4) \div 65536) % 65536, (P.nPowTargetTimespan \div 4) % 65536>>

LargestTimespanU32(P) ==
  <<(P.nPowTargetTimespan % 1073741824) \div 16384, 4 * (P.nPowTargetTimespan % 16384)>>

\* target *= timespan (uint32_t); target /= nPowTargetTimespan; clamped to
\* powLimit (pow.cpp:255-262, 271-278); timespan is <<hi, lo>>
ScaledTarget(old_nbits, timespan, P) ==
  LET F[t \in BigDom] == IF BigLt(P.powLimit, t) THEN P.powLimit ELSE t
  IN F[BigDivSmall(BigMulU32(SetCompact(old_nbits).val, timespan[1], timespan[2]),
                   P.nPowTargetTimespan)]

\* mutant: rejects a new target equal to the maximum
PermittedDifficultyTransitionStrictMax(P, height, old_nbits, new_nbits) ==
  IF P.fPowAllowMinDifficultyBlocks THEN TRUE
  ELSE IF height % P.interval = 0
  THEN LET smallest_timespan == SmallestTimespanU32(P)
           largest_timespan == LargestTimespanU32(P)
           observed_new_target == SetCompact(new_nbits).val
           maximum_new_target == CompactRoundTrip(ScaledTarget(old_nbits, largest_timespan, P))
           minimum_new_target == CompactRoundTrip(ScaledTarget(old_nbits, smallest_timespan, P))
       IN IF BigLeq(maximum_new_target, observed_new_target) THEN FALSE
          ELSE IF BigLt(observed_new_target, minimum_new_target) THEN FALSE
          ELSE TRUE
  ELSE old_nbits = new_nbits

PermittedDifficultyTransition(P, height, old_nbits, new_nbits) ==
  IF P.fPowAllowMinDifficultyBlocks THEN TRUE
  ELSE IF height % P.interval = 0
  THEN LET smallest_timespan == SmallestTimespanU32(P)
           largest_timespan == LargestTimespanU32(P)
           observed_new_target == SetCompact(new_nbits).val
           maximum_new_target == CompactRoundTrip(ScaledTarget(old_nbits, largest_timespan, P))
           minimum_new_target == CompactRoundTrip(ScaledTarget(old_nbits, smallest_timespan, P))
       IN IF BigLt(maximum_new_target, observed_new_target) THEN FALSE
          ELSE IF BigLt(observed_new_target, minimum_new_target) THEN FALSE
          ELSE TRUE
  ELSE old_nbits = new_nbits

\* mutant: requires the hash strictly below the target
CheckProofOfWorkStrict(hash, nBits, P) ==
  LET F[t \in [val : BigDom, neg : BOOLEAN, ovf : BOOLEAN]] ==
        IF t.neg \/ t.val = BigZero \/ t.ovf \/ BigLt(P.powLimit, t.val) THEN FALSE
        ELSE BigLt(hash, t.val)
  IN F[SetCompact(nBits)]

CheckProofOfWork(hash, nBits, P) ==
  LET F[t \in [val : BigDom, neg : BOOLEAN, ovf : BOOLEAN]] ==
        IF t.neg \/ t.val = BigZero \/ t.ovf \/ BigLt(P.powLimit, t.val) THEN FALSE
        ELSE ~BigLt(t.val, hash)
  IN F[SetCompact(nBits)]

\* ---------------------------------------------------------------------
\* Inputs
\* ---------------------------------------------------------------------
MaxHeightDiff == 3

\* 2^224 - 1, the largest ceiling the powLimit assertion admits
PowLimitMain == BigSub(BigShl(Big(1), 224), Big(1))

RefTargets == {Big(1), Big(77777), BigShl(Big(255), 180), PowLimitMain}

HalfLives == {1, 7, 65537, 172800}

\* deviations nTimeDiff - nPowTargetSpacing * nHeightDiff
SmallDevs == {-2000000, -300, -256, -40, -17, -1, 0, 1, 17, 33, 40, 256, 300, 65536, 2000000}

\* 2^32 + 15 and 2^32 + 17: a shift count just below and above 2^32
HugeDevs == {SAdd([neg |-> FALSE, mag |-> BigShl(Big(1), 32)], SInt(15)),
             SAdd([neg |-> FALSE, mag |-> BigShl(Big(1), 32)], SInt(17))}

DevSet == {SInt(d) : d \in SmallDevs} \cup HugeDevs

MaxChainHeight == 4

MaxAnchorHeight == 2

\* (nBitsLegacy, nBitsAuxPow) of the anchor: 0x1d00ffff and 0x1c3fffff, two
\* distinct valid targets; 0x1d00ffff and 0, an auxpow target decoding to zero
AnchorBitsPairs == {<<486604799, 473956351>>, <<486604799, 0>>}

\* the blocks' own nBits (0x1c0ffff0) and timestamps (start, spacing)
NodeBits == {470810608}

ChainTimes == {<<1000, 40>>}

\* nPowTargetSpacingLegacy, nPowTargetSpacingAuxPow, nASERTHalfLife
DispatchSpacings == {<<60, 30, 120>>}

\* nPowTargetTimespan (14 days) and DifficultyAdjustmentInterval();
\* 2^30 and 3 * 2^29, where uint32(nPowTargetTimespan * 4) wraps to 0 and 2^31
RetargetParams == {<<1209600, 2016>>, <<1073741824, 2016>>, <<1610612736, 2016>>}

\* heights: a retarget boundary and the block after it
TransitionHeights == {2016, 2017}

\* 0x1b7fffff (mantissa 0x7fffff), 0x1d00ffff (compact powLimit), 0x1c123456,
\* 0x03123456 (three-byte value), 0x01120000 (one-byte value)
OldBits == {461373439, 486604799, 470955094, 51524694, 17956864}

\* 0x1b1fffff (just below a quarter of 0x1b7fffff), 0x1c200000 (above four
\* times 0x1b7fffff), 0x1b3fffff, 0x1c048d15, 0x1d00ffff, 0x03048d15
NewBits == {455081983, 471859200, 457179135, 470060309, 486604799, 50629909}

\* nBits of CheckProofOfWork: 0x1d00ffff, 0x1b7fffff, 0x01120000, 0x03000001
\* (valid); 0x1c800001 (negative), 0x23010000 (overflow), 0x1c000000 (zero),
\* 0x1d01ffff (above powLimit)
PoWBits == {486604799, 461373439, 17956864, 50331649,
            478150657, 587268096, 469762048, 486670335}

Init ==
  /\ pc = "idle"
  /\ inp = [op |-> "none"]
  /\ out = [op |-> "none"]

\* one call of GetNextWorkRequired on a chain whose tip (pindexLast) is at height last
GetNextWorkRequiredCall ==
  /\ pc = "idle"
  /\ \E last \in 0..MaxChainHeight, anchorHeight \in 0..MaxAnchorHeight,
        nb \in NodeBits, ct \in ChainTimes, sps \in DispatchSpacings, pair \in AnchorBitsPairs,
        noRetarget \in BOOLEAN, minDifficulty \in BOOLEAN, candAux \in BOOLEAN, late \in 0..1 :
     \E lanes \in [0..last -> BOOLEAN] :
     \E ch \in {[aux |-> lanes,
                 time |-> [h \in 0..last |-> ct[1] + h * ct[2]],
                 bits |-> [h \in 0..last |-> nb]]} :
     \E P \in {[fPowNoRetargeting |-> noRetarget,
                fPowAllowMinDifficultyBlocks |-> minDifficulty,
                nPowTargetSpacingLegacy |-> sps[1], nPowTargetSpacingAuxPow |-> sps[2],
                nASERTHalfLife |-> sps[3], powLimit |-> PowLimitMain,
                anchor |-> [nHeight |-> anchorHeight,
                            nBlockTime |-> ct[1] + (anchorHeight - 1) * ct[2],
                            nBitsLegacy |-> pair[1], nBitsAuxPow |-> pair[2]]]} :
     \E blk \in {[time |-> ch.time[last] + 2 * sps[2] + late, aux |-> candAux]} :
       /\ pc' = "gnwr"
       /\ inp' = [op |-> "gnwr", ch |-> ch, last |-> last, blk |-> blk, P |-> P]
       /\ out' = [op |-> "gnwr"] @@ GetNextWorkRequired(ch, last, blk, P)

\* one call of CalculateASERT, also evaluated one second later and one block later
CalculateASERTCall ==
  /\ pc = "idle"
  /\ \E refTarget \in RefTargets, nHeightDiff \in 1..MaxHeightDiff,
        nHalfLife \in HalfLives, dev \in DevSet :
       LET sp == 600 IN
       \E td \in {SAdd(SInt(sp * nHeightDiff), dev)} :
       \E tdT \in {SAdd(td, SInt(1))} :
          /\ pc' = "asert"
          /\ inp' = [op |-> "asert", refTarget |-> refTarget, nPowTargetSpacing |-> sp,
                     nTimeDiff |-> td, nHeightDiff |-> nHeightDiff,
                     powLimit |-> PowLimitMain, nHalfLife |-> nHalfLife]
          /\ out' = [op |-> "asert",
                     ok |-> ASERTAssertsHold(refTarget, sp, td, nHeightDiff, PowLimitMain),
                     okT |-> ASERTAssertsHold(refTarget, sp, tdT, nHeightDiff, PowLimitMain),
                     okH |-> ASERTAssertsHold(refTarget, sp, td, nHeightDiff + 1, PowLimitMain),
                     r0 |-> CalculateASERT(refTarget, sp, td, nHeightDiff, PowLimitMain, nHalfLife),
                     rT |-> CalculateASERT(refTarget, sp, tdT, nHeightDiff, PowLimitMain, nHalfLife),
                     rH |-> CalculateASERT(refTarget, sp, td, nHeightDiff + 1, PowLimitMain, nHalfLife)]

\* one call of PermittedDifficultyTransition
PermittedDifficultyTransitionCall ==
  /\ pc = "idle"
  /\ \E rp \in RetargetParams, minDifficulty \in BOOLEAN, height \in TransitionHeights,
        old_nbits \in OldBits, nb \in NewBits \cup {0} :
       LET P == [fPowAllowMinDifficultyBlocks |-> minDifficulty, powLimit |-> PowLimitMain,
                 nPowTargetTimespan |-> rp[1], interval |-> rp[2]]
           \* 0 stands for new_nbits = old_nbits
           new_nbits == IF nb = 0 THEN old_nbits ELSE nb
       IN /\ pc' = "transition"
          /\ inp' = [op |-> "transition", P |-> P, height |-> height,
                     old_nbits |-> old_nbits, new_nbits |-> new_nbits]
          /\ out' = [op |-> "transition",
                     res |-> PermittedDifficultyTransition(P, height, old_nbits, new_nbits)]

\* one call of CheckProofOfWork, the hash drawn around the decoded target
CheckProofOfWorkCall ==
  /\ pc = "idle"
  /\ \E nBits \in PoWBits, k \in {"zero", "below", "equal", "above", "max"} :
     \E t \in {SetCompact(nBits).val} :
     \E hash \in {CASE k = "zero" -> BigZero
                    [] k = "below" -> BigSub(t, Big(1))
                    [] k = "equal" -> t
                    [] k = "above" -> BigAdd(t, Big(1))
                    [] k = "max" -> BigSub(BigZero, Big(1))} :
       LET P == [powLimit |-> PowLimitMain]
       IN /\ pc' = "pow"
          /\ inp' = [op |-> "pow", P |-> P, hash |-> hash, nBits |-> nBits]
          /\ out' = [op |-> "pow", res |-> CheckProofOfWork(hash, nBits, P)]

Next == CheckProofOfWorkCall \/ GetNextWorkRequiredCall \/ CalculateASERTCall
        \/ PermittedDifficultyTransitionCall

Spec == Init /\ [][Next]_vars

\* ---------------------------------------------------------------------
\* Properties
\* ---------------------------------------------------------------------
Gnwr == out.op = "gnwr"

AnchorH == inp.P.anchor.nHeight

\* the anchor's nBits for the candidate's lane
LaneAnchorBits == IF inp.blk.aux THEN inp.P.anchor.nBitsAuxPow ELSE inp.P.anchor.nBitsLegacy

LaneSpacing == IF inp.blk.aux THEN inp.P.nPowTargetSpacingAuxPow ELSE inp.P.nPowTargetSpacingLegacy

\* nBits decodes into (0, powLimit]
ValidTarget(nBits) ==
  LET t == SetCompact(nBits).val IN t # BigZero /\ BigLeq(t, PowLimitMain)

\* the most recent node at or below the parent on the candidate's lane, -1 if none
LaneRef ==
  LET M == {h \in 0..inp.last : inp.ch.aux[h] = inp.blk.aux}
  IN IF M = {} THEN -1 ELSE CHOOSE h \in M : \A g \in M : g <= h

\* C1: with fPowNoRetargeting, GetNextWorkRequired returns the parent's nBits
\* unchanged, whatever the other inputs.
C1_NoRetargetingKeepsParentBits ==
  Gnwr /\ inp.P.fPowNoRetargeting => out.res = inp.ch.bits[inp.last]

C1_Witness ==
  /\ Gnwr /\ inp.P.fPowNoRetargeting /\ inp.P.fPowAllowMinDifficultyBlocks
  /\ inp.last > AnchorH /\ inp.blk.aux /\ out.res = inp.ch.bits[inp.last]

\* The consensus parameters keep the anchor height positive; with anchor height
\* 0 the assert of pow.cpp:176 aborts every call without fPowNoRetargeting, so
\* C2-C4 are stated for anchor height > 0.
\* C2: without fPowNoRetargeting, a parent at or below the anchor height gives
\* the anchor's packed target of the candidate's lane (nBitsAuxPow for an
\* auxpow candidate, nBitsLegacy otherwise), without ASERT.
C2_AtAnchorLaneBits ==
  Gnwr /\ ~inp.P.fPowNoRetargeting /\ AnchorH > 0 /\ inp.last <= AnchorH
    => out.res = LaneAnchorBits /\ out.path = "anchor"

\* C3: without fPowNoRetargeting, with fPowAllowMinDifficultyBlocks and a
\* parent above the anchor, the result is the compact powLimit, before any
\* walk, exactly when the candidate is later than parent time + 2 * auxpow
\* spacing; otherwise it is what the walk / ASERT path returns.
C3_MinDifficultyEscape ==
  Gnwr /\ ~inp.P.fPowNoRetargeting /\ inp.P.fPowAllowMinDifficultyBlocks
       /\ AnchorH > 0 /\ inp.last > AnchorH
    => /\ (out.path = "mindiff")
            <=> (inp.blk.time > inp.ch.time[inp.last] + 2 * inp.P.nPowTargetSpacingAuxPow)
       /\ out.path = "mindiff" => out.res = GetCompact(inp.P.powLimit) /\ out.low = inp.last
       /\ out.path # "mindiff" =>
            out.res = GetNextWorkRequired(inp.ch, inp.last, inp.blk,
                        [inp.P EXCEPT !.fPowAllowMinDifficultyBlocks = FALSE]).res

C3_Witness ==
  /\ Gnwr /\ ~inp.P.fPowNoRetargeting /\ inp.P.fPowAllowMinDifficultyBlocks
  /\ inp.last > AnchorH /\ out.path = "mindiff"

\* C4: past the early returns, the walk finds the most recent node on the
\* candidate's lane; if it is at or below the anchor height the result is the
\* lane's anchor nBits (on both short-circuit returns), otherwise the compact
\* CalculateASERT with the lane's anchor target and spacing (for a lane anchor
\* target in (0, powLimit]); no walk goes below the anchor height.
C4_LaneWalkResult ==
  Gnwr /\ ~inp.P.fPowNoRetargeting /\ AnchorH > 0 /\ inp.last > AnchorH
       /\ out.path # "mindiff"
    => /\ out.low >= AnchorH
       /\ LaneRef <= AnchorH =>
            out.path \in {"walkanchor", "refanchor"} /\ out.res = LaneAnchorBits
       /\ LaneRef > AnchorH /\ ValidTarget(LaneAnchorBits) =>
            /\ out.path = "asert" /\ out.ref = LaneRef
            /\ out.res = GetCompact(CalculateASERT(SetCompact(LaneAnchorBits).val, LaneSpacing,
                                   SInt(inp.ch.time[LaneRef] - inp.P.anchor.nBlockTime),
                                   out.hd, inp.P.powLimit, inp.P.nASERTHalfLife))

C4_Witness ==
  Gnwr /\ out.path = "refanchor" /\ inp.blk.aux /\ out.res = inp.P.anchor.nBitsAuxPow

\* C5: the height difference passed to CalculateASERT is the number of
\* candidate-lane blocks in (anchor height, reference height]; the time
\* difference is the reference block time minus the anchor nBlockTime.
C5_ASERTArguments ==
  Gnwr /\ out.path \in {"asert", "abort"}
    => /\ out.hd = Cardinality({h \in (AnchorH + 1)..out.ref : inp.ch.aux[h] = inp.blk.aux})
       /\ out.td = inp.ch.time[out.ref] - inp.P.anchor.nBlockTime

C5_Witness ==
  /\ Gnwr /\ out.path = "asert"
  /\ \E h \in (AnchorH + 1)..out.ref : inp.ch.aux[h] # inp.blk.aux

\* the exact shift count of CalculateASERT moves the product past 2^256
ExactShiftOverflows ==
  LET diff == SSub(inp.nTimeDiff, SInt(inp.nPowTargetSpacing * inp.nHeightDiff))
      e == ASERTExponent(diff, inp.nHalfLife)
      shifts == SSub(ASERTShifts(e), SInt(16))
      nt == BigMulSmall(inp.refTarget, ASERTFactor(ASERTFrac(e)))
  IN SPositive(shifts) /\ BigLt(Big(256 - BigBits(nt)), shifts.mag)

\* C6: CalculateASERT returns a value in [1, powLimit], and a left shift that
\* would exceed 256 bits gives powLimit, never a wrapped value.
C6_ASERTRangeNoWrap ==
  out.op = "asert" /\ out.ok
    => /\ out.r0 # BigZero /\ BigLeq(out.r0, inp.powLimit)
       /\ ExactShiftOverflows => out.r0 = inp.powLimit

\* C7: CalculateASERT is non-decreasing in nTimeDiff and non-increasing in
\* nHeightDiff.
C7_ASERTMonotonic ==
  out.op = "asert" /\ out.ok /\ out.okT /\ out.okH
    => BigLeq(out.r0, out.rT) /\ BigLeq(out.rH, out.r0)

OldTarget == SetCompact(inp.old_nbits).val

NewTarget == SetCompact(inp.new_nbits).val

\* old * (nPowTargetTimespan / 4) / nPowTargetTimespan in exact arithmetic
QuarterTarget == BigDivSmall(BigMulU32(OldTarget, (inp.P.nPowTargetTimespan \div 4) \div 65536,
                                       (inp.P.nPowTargetTimespan \div 4) % 65536),
                             inp.P.nPowTargetTimespan)

\* old * (4 * nPowTargetTimespan) / nPowTargetTimespan = 4 * old
FourfoldTarget == BigMulSmall(OldTarget, 4)

BoundaryTransition ==
  /\ out.op = "transition" /\ ~inp.P.fPowAllowMinDifficultyBlocks
  /\ inp.height % inp.P.interval = 0 /\ ValidTarget(inp.old_nbits)

\* C8: at a retarget boundary without the min-difficulty
\* exemption, new = old is permitted and a new target above 4x or below 1/4x
\* the old one (integer timespan arithmetic) is rejected.
C8_TransitionBounds ==
  BoundaryTransition
    => /\ inp.new_nbits = inp.old_nbits => out.res
       /\ BigLt(FourfoldTarget, NewTarget) => ~out.res
       /\ BigLt(NewTarget, QuarterTarget) => ~out.res

PoWTargetValid ==
  LET t == SetCompact(inp.nBits)
  IN ~t.neg /\ ~t.ovf /\ t.val # BigZero /\ BigLeq(t.val, inp.P.powLimit)

\* C9: CheckProofOfWork rejects negative, overflowing, zero and above-powLimit
\* targets, and otherwise accepts exactly the hashes <= the target.
C9_CheckProofOfWork ==
  out.op = "pow"
    => /\ ~PoWTargetValid => ~out.res
       /\ PoWTargetValid => (out.res <=> BigLeq(inp.hash, SetCompact(inp.nBits).val))

C9_Witness ==
  out.op = "pow" /\ PoWTargetValid /\ inp.hash = SetCompact(inp.nBits).val /\ out.res

\* C10: on the way to GetNextASERTWorkRequired, with anchor targets in
\* (0, powLimit], the height difference is >= 1 and no assertion fails.
C10_ASERTAssertionsHold ==
  Gnwr /\ out.path \in {"asert", "abort"}
       /\ ValidTarget(inp.P.anchor.nBitsLegacy) /\ ValidTarget(inp.P.anchor.nBitsAuxPow)
    => out.path = "asert" /\ out.hd >= 1

C10_Witness ==
  Gnwr /\ out.path = "asert" /\ out.hd = 1 /\ out.ref > AnchorH + 1

====
